---- MODULE Spec2Model ----
(***************************************************************************)
(* cargo-files-core: the module-graph resolution engine.                   *)
(*                                                                         *)
(*   parser.rs  ModVisitor::visit_item_mod   declaration extractor         *)
(*   parser.rs  Module::resolve              path resolver                 *)
(*   parser.rs  extract_crate_files          file-set builder              *)
(*   lib.rs     get_target_files             entry point of one build      *)
(*                                                                         *)
(* A path is a sequence of components, "/" being the empty sequence.  A    *)
(* component is a record [stem, ext]: "a.rs" is [stem |-> "a", ext |->     *)
(* "rs"], the directory name "a" is [stem |-> "a", ext |-> ""].  The       *)
(* string of a #[path = "..."] attribute is held as the sequence of the    *)
(* components it names.  Option<T> is a sequence of length 0 or 1.         *)
(***************************************************************************)
EXTENDS Naturals, Sequences, FiniteSets, TLC

VARIABLES
    \* ---- one build: get_target_files / extract_crate_files
    files,      \* the file tree: canonical path of each file -> its content
    root,       \* target.path
    acc,        \* the accumulator HashSet<PathBuf>
    frames,     \* the activations of extract_crate_files, outermost first
    result,     \* what get_target_files returned, once it has
    events,     \* history: every read/parse and every resolve made, in order
    \* ---- one call of Module::resolve
    rq,         \* its arguments and the file tree it runs against
    rpc,        \* where it is: "begin", "head", "final", "done"
    ri,         \* the index i of the loop over the parent components
    rbase,      \* base_resolution_path
    rres,       \* the value it returned
    \* ---- one run of ModVisitor over a parsed file
    ast,        \* the items of the file
    ctl,        \* what is left of the traversal: items to visit, pops to make
    stack,      \* ModVisitor.stack
    modules,    \* ModVisitor.modules
    entered,    \* history: the stack as it was on entry of each visit not yet left
    vpc,        \* "running", "done", or "panic" (the expect on stack.pop)
    \* ---- one enumeration of targets: get_targets / get_targets_recursive
    world,      \* the manifests on disk and what cargo metadata says of each
    tframes,    \* the activations of get_targets_recursive, outermost first
    targets,    \* the BTreeSet<Target> being filled
    visited,    \* the BTreeSet<String> of dependency names recursed into
    tret,       \* what the activation that just ended returned
    tres,       \* what get_targets returned, once it has
    calls       \* history: the dependency name of every recursive call, in order

buildVars   == <<files, root, acc, frames, result, events>>
resolveVars == <<rq, rpc, ri, rbase, rres>>
visitVars   == <<ast, ctl, stack, modules, entered, vpc>>
targetVars  == <<world, tframes, targets, visited, tret, tres, calls>>
vars        == <<files, root, acc, frames, result, events,
                 rq, rpc, ri, rbase, rres, ast, ctl, stack, modules, entered, vpc,
                 world, tframes, targets, visited, tret, tres, calls>>

----------------------------------------------------------------------------
(* Bounds of the model *)

\* deepest nesting of activations of extract_crate_files the model follows
MaxDepth == 5
\* longest declaration chain handed to resolve
MaxChain == 3
\* most module declarations in one parsed file
MaxNodes == 3

----------------------------------------------------------------------------
(* Option, paths, the file system *)

None == <<>>
Some(x) == <<x>>
IsSome(o) == Len(o) = 1
IsNone(o) == Len(o) = 0

Rs(n)  == [stem |-> n, ext |-> "rs"]
Dir(n) == [stem |-> n, ext |-> ""]
Up     == [stem |-> "..", ext |-> ""]

Front(p) == SubSeq(p, 1, Len(p) - 1)
Last(p)  == p[Len(p)]

\* Path::parent
Parent(p) == IF Len(p) = 0 THEN None ELSE Some(Front(p))

\* Path::file_stem: none for "/" and for a path ending in ".."
FileStem(p) == IF Len(p) = 0 \/ Last(p) = Up THEN None ELSE Some(Last(p).stem)

\* PathBuf::join / push / extend of a relative path: the components follow
Join(p, q) == p \o q

\* str::ends_with(".rs") on the text of a path attribute
EndsWithRs(ov) == Len(ov) > 0 /\ Last(ov).ext = "rs"

\* the directories of a file tree: every proper prefix of a file's path
DirsOf(fs) ==
    {<<>>} \cup UNION {{SubSeq(p, 1, k) : k \in 0..(Len(p) - 1)} : p \in DOMAIN fs}

\* what the operating system makes of a path: it walks the components from
\* "/", each step through an existing directory, ".." going to the parent
RECURSIVE WalkFrom(_, _, _)
WalkFrom(fs, cur, rest) ==
    IF Len(rest) = 0 THEN Some(cur)
    ELSE IF cur \notin DirsOf(fs) THEN None
    ELSE IF Head(rest) = Up
         THEN WalkFrom(fs, IF Len(cur) = 0 THEN cur ELSE Front(cur), Tail(rest))
    ELSE LET nxt == Append(cur, Head(rest))
         IN  IF nxt \in DOMAIN fs \cup DirsOf(fs)
             THEN WalkFrom(fs, nxt, Tail(rest))
             ELSE None

\* Path::exists
Exists(fs, p) == IsSome(WalkFrom(fs, <<>>, p))

\* variant: the resolved path is kept as it was built
CanonicalizeIdentity(fs, p) == p
\* dunce::canonicalize(&module_path).unwrap_or(module_path)
Canonicalize(fs, p) ==
    LET w == WalkFrom(fs, <<>>, p) IN IF IsSome(w) THEN w[1] ELSE p

\* fs::read_to_string followed by syn::parse_file: the file the path leads
\* to is read, a directory or a missing file cannot be
ReadAndParse(fs, p) ==
    LET w == WalkFrom(fs, <<>>, p)
    IN  IF IsNone(w) \/ w[1] \notin DOMAIN fs \/ w[1] \in DirsOf(fs)
          THEN [tag |-> "Err", err |-> "FileError", items |-> <<>>]
        ELSE IF fs[w[1]].kind = "bad"
          THEN [tag |-> "Err", err |-> "ParseError", items |-> <<>>]
        ELSE [tag |-> "Ok", err |-> "", items |-> fs[w[1]].items]

----------------------------------------------------------------------------
(* Results *)

Ok(p)    == [tag |-> "Ok", path |-> p, err |-> ""]
Err(e)   == [tag |-> "Err", path |-> <<>>, err |-> e]
Panicked == [tag |-> "Panic", path |-> <<>>, err |-> "assertion failed"]
Pending  == [tag |-> "Pending", path |-> <<>>, err |-> ""]

----------------------------------------------------------------------------
(* ModVisitor: the declaration extractor *)

\* A parsed item.  kind "mod" is a syn::ItemMod: ident, attrs, and content,
\* which is None for `mod x;` and Some(items) for `mod x { items }`.  Any
\* other item has kind "other"; one that holds items of its own (a function
\* with a body) has them in content, and syn's traversal goes through it.
ModItem(ident, attrs, content) ==
    [kind |-> "mod", ident |-> ident, attrs |-> attrs, content |-> content]
OtherItem == [kind |-> "other", ident |-> "", attrs |-> <<>>, content |-> None]
FnItem(body) == [kind |-> "other", ident |-> "", attrs |-> <<>>, content |-> Some(body)]

\* An attribute: the form of its meta ("Path", "List", "NameValue"), the
\* single identifier of its path if it is one, and for a name-value its
\* value: a string literal ("Str") or anything else ("Other").
Attribute(meta, ident, lit, value) ==
    [meta |-> meta, ident |-> ident, lit |-> lit, value |-> value]
PathAttr(ov) == Attribute("NameValue", Some("path"), "Str", ov)
DocAttr      == Attribute("NameValue", Some("doc"), "Str", <<>>)

\* variant: the value of a `path` name-value is taken whatever it is
RECURSIVE PathAttributeAnyValue(_)
PathAttributeAnyValue(attrs) ==
    IF Len(attrs) = 0 THEN None
    ELSE LET attr == Head(attrs)
         IN  IF attr.meta = "NameValue" /\ attr.ident = Some("path")
             THEN Some(attr.value)
             ELSE PathAttributeAnyValue(Tail(attrs))

\* the loop over item.attrs: the first #[path = "<string literal>"]
RECURSIVE PathAttribute(_)
PathAttribute(attrs) ==
    IF Len(attrs) = 0 THEN None
    ELSE LET attr == Head(attrs)
         IN  IF attr.meta # "NameValue" THEN PathAttribute(Tail(attrs))
             ELSE IF IsNone(attr.ident) THEN PathAttribute(Tail(attrs))
             ELSE IF attr.ident[1] # "path" THEN PathAttribute(Tail(attrs))
             ELSE IF attr.lit # "Str" THEN PathAttribute(Tail(attrs))
             ELSE Some(attr.value)

\* variant: a declaration with an attribute that is passed over is left at
\* once, nothing pushed
PushUnlessSkipped(stk, item) ==
    IF \E k \in 1..Len(item.attrs) :
          item.attrs[k].meta # "NameValue" \/ item.attrs[k].ident # Some("path")
    THEN stk
    ELSE Append(stk, [name |-> item.ident, path |-> PathAttribute(item.attrs)])

\* self.stack.push(PathComponent { name, path })
PushComponent(stk, item) ==
    Append(stk, [name |-> item.ident, path |-> PathAttribute(item.attrs)])

\* variant: inline modules are recorded too
RecordModuleAlways(mods, stk, item) == Append(mods, stk)

\* if item.content.is_none() { self.modules.push(Module { parts: stack.clone() }) }
RecordModule(mods, stk, item) ==
    IF IsNone(item.content) THEN Append(mods, stk) ELSE mods

\* visit_item_mod and the traversal of syn::visit below it, as one function
\* of the items: the modules recorded, with the stack as it is on entry
RECURSIVE VisitItems(_, _)
VisitItems(items, stk) ==
    IF Len(items) = 0 THEN <<>>
    ELSE LET item == Head(items)
             here == IF item.kind # "mod"
                     THEN (IF IsNone(item.content) THEN <<>>
                           ELSE VisitItems(item.content[1], stk))
                     ELSE LET pushed == PushComponent(stk, item)
                          IN  RecordModule(<<>>, pushed, item)
                              \o (IF IsNone(item.content) THEN <<>>
                                  ELSE VisitItems(item.content[1], pushed))
         IN  here \o VisitItems(Tail(items), stk)

\* visitor.visit_file(&file); visitor.modules
ExtractModules(items) == VisitItems(items, <<>>)

----------------------------------------------------------------------------
(* Module::resolve and resolve_base_resolution_path *)

\* struct PathComponent { name, path }
Component(n, p) == [name |-> n, path |-> p]

\* variant: only a stem of "mod" makes a marker file
ResolveBaseNoRootCase(root_path, source_file_path) ==
    LET base_name == FileStem(source_file_path)
        dir       == Parent(source_file_path)
    IN  IF IsNone(base_name) THEN Err("NoStem")
        ELSE IF IsNone(dir) THEN Err("NoParent")
        ELSE Ok(IF base_name[1] = "mod" THEN dir[1]
                ELSE Append(dir[1], Dir(base_name[1])))

\* resolve_base_resolution_path
ResolveBaseResolutionPath(root_path, source_file_path) ==
    LET base_name == FileStem(source_file_path)
        dir       == Parent(source_file_path)
    IN  IF IsNone(base_name) THEN Err("NoStem")
        ELSE IF IsNone(dir) THEN Err("NoParent")
        ELSE LET is_mod_rs == (root_path = source_file_path) \/ base_name[1] = "mod"
             IN  Ok(IF is_mod_rs THEN dir[1] ELSE Append(dir[1], Dir(base_name[1])))

\* resolve, up to the loop: the assertion on parts, source_file_directory,
\* the first base_resolution_path
ResolveBegin(root_path, source_file_path, parts) ==
    IF Len(parts) = 0 THEN Panicked
    ELSE IF IsNone(Parent(source_file_path)) THEN Err("NoParent")
    ELSE ResolveBaseResolutionPath(root_path, source_file_path)

\* variant: without the special case of the first component
HeadStepAlwaysPush(base, source_file_directory, i, component) ==
    IF IsSome(component.path)
    THEN IF EndsWithRs(component.path[1]) THEN Panicked
         ELSE Ok(Join(base, component.path[1]))
    ELSE Ok(Append(base, Dir(component.name)))

\* variant: past the first component the name is pushed, override or not
HeadStepNameOnly(base, source_file_directory, i, component) ==
    IF IsSome(component.path) /\ EndsWithRs(component.path[1]) THEN Panicked
    ELSE IF IsSome(component.path) /\ i = 0
    THEN Ok(Join(source_file_directory, component.path[1]))
    ELSE Ok(Append(base, Dir(component.name)))

\* resolve, one turn of the loop over the parent components (i counts from 0)
HeadStep(base, source_file_directory, i, component) ==
    IF IsSome(component.path)
    THEN IF EndsWithRs(component.path[1]) THEN Panicked
         ELSE IF i = 0 THEN Ok(Join(source_file_directory, component.path[1]))
         ELSE Ok(Join(base, component.path[1]))
    ELSE Ok(Append(base, Dir(component.name)))

\* variant: {name}/mod.rs is tried before {name}.rs
FinalStepModRsFirst(fs, base, source_file_directory, head_is_empty, final_part) ==
    IF IsSome(final_part.path)
    THEN LET p == IF head_is_empty
                  THEN Join(source_file_directory, final_part.path[1])
                  ELSE Join(base, final_part.path[1])
         IN  IF Exists(fs, p) THEN Ok(p) ELSE Err("ModuleNotFound")
    ELSE LET new_style == Append(base, Rs(final_part.name))
             old_style == Join(base, <<Dir(final_part.name), Rs("mod")>>)
         IN  IF Exists(fs, old_style) THEN Ok(old_style)
             ELSE IF Exists(fs, new_style) THEN Ok(new_style)
             ELSE Err("ModuleNotFound")

\* variant: a missing override path falls back to the default candidates
FinalStepFallsBack(fs, base, source_file_directory, head_is_empty, final_part) ==
    LET new_style == Append(base, Rs(final_part.name))
        old_style == Join(base, <<Dir(final_part.name), Rs("mod")>>)
        p == IF IsNone(final_part.path) THEN new_style
             ELSE IF head_is_empty
             THEN Join(source_file_directory, final_part.path[1])
             ELSE Join(base, final_part.path[1])
    IN  IF IsSome(final_part.path) /\ Exists(fs, p) THEN Ok(p)
        ELSE IF Exists(fs, new_style) THEN Ok(new_style)
        ELSE IF Exists(fs, old_style) THEN Ok(old_style)
        ELSE Err("ModuleNotFound")

\* resolve, after the loop: the declaration's own path attribute, or
\* {name}.rs, or {name}/mod.rs
FinalStep(fs, base, source_file_directory, head_is_empty, final_part) ==
    IF IsSome(final_part.path)
    THEN LET p == IF head_is_empty
                  THEN Join(source_file_directory, final_part.path[1])
                  ELSE Join(base, final_part.path[1])
         IN  IF Exists(fs, p) THEN Ok(p) ELSE Err("ModuleNotFound")
    ELSE LET new_style == Append(base, Rs(final_part.name))
             old_style == Join(base, <<Dir(final_part.name), Rs("mod")>>)
         IN  IF Exists(fs, new_style) THEN Ok(new_style)
             ELSE IF Exists(fs, old_style) THEN Ok(old_style)
             ELSE Err("ModuleNotFound")

\* the loop over head, from turn i on
RECURSIVE WalkHead(_, _, _, _)
WalkHead(base, source_file_directory, head, i) ==
    IF base.tag # "Ok" \/ i >= Len(head) THEN base
    ELSE WalkHead(HeadStep(base.path, source_file_directory, i, head[i + 1]),
                  source_file_directory, head, i + 1)

\* Module::resolve, whole
Resolve(fs, parts, root_path, source_file_path) ==
    LET b0 == ResolveBegin(root_path, source_file_path, parts)
    IN  IF b0.tag # "Ok" THEN b0
        ELSE LET sfd == Parent(source_file_path)[1]
                 b   == WalkHead(b0, sfd, Front(parts), 0)
             IN  IF b.tag # "Ok" THEN b
                 ELSE FinalStep(fs, b.path, sfd, Len(parts) = 1, Last(parts))

----------------------------------------------------------------------------
(* What the resolution rules say, in closed form: the statements the      *)
(* resolver is checked against, and the file trees it is run on.          *)

\* a marker file: the target's root entry file, or a file whose stem is "mod"
IsMarkerFile(root_path, src) == src = root_path \/ Last(src).stem = "mod"

\* the base resolution directory of a containing file
BaseDirectoryOf(root_path, src) ==
    IF IsMarkerFile(root_path, src) THEN Front(src)
    ELSE Append(Front(src), Dir(Last(src).stem))

\* what one chain component adds to a base: its override, else its name
Segment(c) == IF IsSome(c.path) THEN c.path[1] ELSE <<Dir(c.name)>>

RECURSIVE Segments(_)
Segments(cs) == IF Len(cs) = 0 THEN <<>> ELSE Segment(Head(cs)) \o Segments(Tail(cs))

\* the base after the parent components head
AccumulatedBase(root_path, src, head) ==
    IF Len(head) = 0 THEN BaseDirectoryOf(root_path, src)
    ELSE (IF IsSome(head[1].path)
          THEN Front(src) \o head[1].path[1]
          ELSE Append(BaseDirectoryOf(root_path, src), Dir(head[1].name)))
         \o Segments(Tail(head))

\* the same walk with the first override anchored at the base directory:
\* the anchor the rules exclude
MisanchoredBase(root_path, src, head) ==
    BaseDirectoryOf(root_path, src) \o Segments(head)

FlatCandidate(base, c)   == Append(base, Rs(c.name))
MarkerCandidate(base, c) == base \o <<Dir(c.name), Rs("mod")>>

\* the path a final override names
OverrideTarget(root_path, src, parts) ==
    (IF Len(parts) = 1 THEN Front(src)
     ELSE AccumulatedBase(root_path, src, Front(parts))) \o Last(parts).path[1]

\* the paths whose existence decides a request, and one decoy under the
\* excluded anchor
Probes(root_path, src, parts) ==
    LET B == AccumulatedBase(root_path, src, Front(parts))
        W == MisanchoredBase(root_path, src, Front(parts))
        f == Last(parts)
    IN  {FlatCandidate(B, f), MarkerCandidate(B, f)}
        \cup (IF IsSome(f.path)
              THEN {OverrideTarget(root_path, src, parts), W \o f.path[1]}
              ELSE {FlatCandidate(W, f)})

EmptySource == [kind |-> "src", items |-> <<>>]

SrcDir == <<Dir("src")>>
LibRs  == <<Dir("src"), Rs("lib")>>
ARs    == <<Dir("src"), Rs("a")>>
AModRs == <<Dir("src"), Dir("a"), Rs("mod")>>

\* (root entry file, containing file): the root itself, a non-marker file, a
\* mod.rs, and a root that is not called lib.rs
Callers ==
    { [root |-> LibRs, src |-> LibRs], [root |-> LibRs, src |-> ARs],
      [root |-> LibRs, src |-> AModRs], [root |-> ARs, src |-> ARs] }

Components ==
    { Component("a", None), Component("b", None), Component("c", None),
      Component("b", Some(<<Dir("dir")>>)), Component("c", Some(<<Rs("o")>>)) }

\* the declaration chains of at most max components
Chains(max) == UNION { [1..n -> Components] : n \in 1..max }

\* a caller, a chain, and a file tree: any of the probed paths exist
Requests(max) ==
    UNION { { [root |-> c.root, src |-> c.src, parts |-> parts,
               fs |-> [p \in S |-> EmptySource]]
              : S \in SUBSET Probes(c.root, c.src, parts) }
            : c \in Callers, parts \in Chains(max) }

----------------------------------------------------------------------------
(* One call of Module::resolve, a step at a time *)

BuildIdle ==
    /\ files = <<>> /\ root = <<>> /\ acc = {} /\ frames = <<>>
    /\ result = [tag |-> "Idle", files |-> {}, err |-> ""]
    /\ events = <<>>

ResolveIdle ==
    /\ rq = [root |-> <<>>, src |-> <<>>, parts |-> <<>>, fs |-> <<>>]
    /\ rpc = "idle" /\ ri = 0 /\ rbase = <<>> /\ rres = Pending

VisitIdle ==
    /\ ast = <<>> /\ ctl = <<>> /\ stack = <<>> /\ modules = <<>>
    /\ entered = <<>> /\ vpc = "idle"

TargetsIdle ==
    /\ world = <<>> /\ tframes = <<>> /\ targets = {} /\ visited = {}
    /\ tret = [tag |-> "Idle", err |-> ""]
    /\ tres = [tag |-> "Idle", targets |-> {}, err |-> ""]
    /\ calls = <<>>

InitResolve ==
    /\ rq \in Requests(MaxChain)
    /\ rpc = "begin" /\ ri = 0 /\ rbase = <<>> /\ rres = Pending
    /\ BuildIdle /\ VisitIdle /\ TargetsIdle

\* source_file_directory, base_resolution_path, split_last
RBegin ==
    /\ rpc = "begin"
    /\ LET r == ResolveBegin(rq.root, rq.src, rq.parts)
       IN  IF r.tag = "Ok"
           THEN rbase' = r.path /\ rpc' = "head" /\ rres' = rres
           ELSE rbase' = rbase /\ rpc' = "done" /\ rres' = r
    /\ ri' = 0
    /\ UNCHANGED <<rq, buildVars, visitVars, targetVars>>

\* for (i, component) in head.iter().enumerate()
RHead ==
    /\ rpc = "head" /\ ri < Len(rq.parts) - 1
    /\ LET r == HeadStep(rbase, Front(rq.src), ri, rq.parts[ri + 1])
       IN  IF r.tag = "Ok"
           THEN rbase' = r.path /\ ri' = ri + 1 /\ rpc' = "head" /\ rres' = rres
           ELSE rbase' = rbase /\ ri' = ri /\ rpc' = "done" /\ rres' = r
    /\ UNCHANGED <<rq, buildVars, visitVars, targetVars>>

\* the actual module definition path
RFinal ==
    /\ rpc = "head" /\ ri = Len(rq.parts) - 1
    /\ rres' = FinalStep(rq.fs, rbase, Front(rq.src), Len(rq.parts) = 1, Last(rq.parts))
    /\ rpc' = "done"
    /\ UNCHANGED <<rq, ri, rbase, buildVars, visitVars, targetVars>>

NextResolve == RBegin \/ RHead \/ RFinal

SpecResolve == InitResolve /\ [][NextResolve]_vars

\* the call has run to its end through the final step
Resolved == rpc = "done" /\ ri = Len(rq.parts) - 1 /\ rres.tag \in {"Ok", "Err"}

\* the steps make up the function
StepsAgreeWithResolve ==
    rpc = "done" => rres = Resolve(rq.fs, rq.parts, rq.root, rq.src)

IsPrefix(p, q) == Len(p) <= Len(q) /\ SubSeq(q, 1, Len(p)) = p

----------------------------------------------------------------------------
(* The path resolver's claims, under SpecResolve *)

\* C4: a declaration whose final component has no override resolves, with B
\* the base accumulated from the chain, to B/<name>.rs if that exists (also
\* when B/<name>/mod.rs exists too), else to B/<name>/mod.rs if that exists,
\* else fails with ModuleNotFound; nothing else is returned.
C4_DefaultCandidates ==
    (Resolved /\ IsNone(Last(rq.parts).path)) =>
        LET name   == Last(rq.parts).name
            flat   == Append(rbase, Rs(name))
            marker == rbase \o <<Dir(name), Rs("mod")>>
        IN  /\ Exists(rq.fs, flat) => rres = Ok(flat)
            /\ (~Exists(rq.fs, flat) /\ Exists(rq.fs, marker)) => rres = Ok(marker)
            /\ (~Exists(rq.fs, flat) /\ ~Exists(rq.fs, marker))
                   => rres = Err("ModuleNotFound")

\* C4's case: both candidates exist and the flat one was returned
C4_Witness ==
    /\ Resolved /\ IsNone(Last(rq.parts).path)
    /\ Exists(rq.fs, FlatCandidate(rbase, Last(rq.parts)))
    /\ Exists(rq.fs, MarkerCandidate(rbase, Last(rq.parts)))
    /\ rres = Ok(FlatCandidate(rbase, Last(rq.parts)))

\* C5: an override on the first component of a chain is resolved relative to
\* the directory of the containing file and replaces the accumulated base:
\* for an inline parent of a chain of depth >= 2 the base after the first
\* turn is dir/<override> and the result lies under it; for a chain of depth
\* 1 the result is dir/<override> or ModuleNotFound; marker file or not.
C5_OutermostOverride ==
    (rpc \in {"head", "done"} /\ IsSome(rq.parts[1].path)) =>
        LET anchored == Front(rq.src) \o rq.parts[1].path[1]
        IN  /\ (Len(rq.parts) >= 2 /\ ri = 1) => rbase = anchored
            /\ (Len(rq.parts) >= 2 /\ ri >= 1) => IsPrefix(anchored, rbase)
            /\ (Len(rq.parts) >= 2 /\ Resolved /\ rres.tag = "Ok")
                   => IsPrefix(anchored, rres.path)
            /\ (Len(rq.parts) = 1 /\ Resolved) =>
                   rres = IF Exists(rq.fs, anchored) THEN Ok(anchored)
                          ELSE Err("ModuleNotFound")

\* C5's case: in the non-marker file src/a.rs, `#[path = "dir"] mod b { mod a; }`
\* resolved to src/dir/a.rs although src/a/dir/a.rs exists as well
C5_Witness ==
    /\ Resolved /\ rq.src = ARs /\ rq.root = LibRs
    /\ rq.parts = <<Component("b", Some(<<Dir("dir")>>)), Component("a", None)>>
    /\ Exists(rq.fs, <<Dir("src"), Dir("a"), Dir("dir"), Rs("a")>>)
    /\ rres = Ok(<<Dir("src"), Dir("dir"), Rs("a")>>)

\* C6: when the final component carries an override, resolve returns the
\* override-derived path if it exists and ModuleNotFound if it does not; it
\* never returns <name>.rs or <name>/mod.rs instead.
C6_FinalOverrideNoFallback ==
    (Resolved /\ IsSome(Last(rq.parts).path)) =>
        LET derived == (IF Len(rq.parts) = 1 THEN Front(rq.src) ELSE rbase)
                           \o Last(rq.parts).path[1]
        IN  rres = IF Exists(rq.fs, derived) THEN Ok(derived)
                   ELSE Err("ModuleNotFound")

\* C6's case: the override's path is missing, both default candidates exist,
\* and the call failed
C6_Witness ==
    /\ Resolved /\ IsSome(Last(rq.parts).path)
    /\ Exists(rq.fs, FlatCandidate(rbase, Last(rq.parts)))
    /\ Exists(rq.fs, MarkerCandidate(rbase, Last(rq.parts)))
    /\ rres = Err("ModuleNotFound")

\* C7: the base resolution directory of a containing file is its parent
\* directory exactly when it is the root entry file or its stem is "mod", and
\* parent/stem otherwise; so a plain child declared in it resolves under that
\* directory.
C7_BaseDirectory ==
    LET marker == rq.src = rq.root \/ Last(rq.src).stem = "mod"
        dir    == IF marker THEN Front(rq.src)
                  ELSE Append(Front(rq.src), Dir(Last(rq.src).stem))
    IN  /\ (rpc = "head" /\ ri = 0) => rbase = dir
        /\ (Resolved /\ Len(rq.parts) = 1 /\ IsNone(rq.parts[1].path)
              /\ rres.tag = "Ok")
               => rres.path \in { FlatCandidate(dir, rq.parts[1]),
                                  MarkerCandidate(dir, rq.parts[1]) }

\* C7's case: `mod b;` in the non-root src/a.rs resolved to src/a/b.rs
C7_Witness ==
    /\ Resolved /\ rq.src = ARs /\ rq.root = LibRs
    /\ rq.parts = <<Component("b", None)>>
    /\ rres = Ok(<<Dir("src"), Dir("a"), Rs("b")>>)

\* C8: an override on a chain component other than the first is appended to
\* the base accumulated so far in place of the component's name, a component
\* without override adds its name; a final override below an inline parent
\* is appended to that base, which starts at the marker-dependent base
\* directory when the first component has no override.
C8_NestedOverrides ==
    /\ (rpc \in {"head", "done"} /\ ri >= 1)
           => rbase = AccumulatedBase(rq.root, rq.src, SubSeq(rq.parts, 1, ri))
    /\ (Resolved /\ Len(rq.parts) >= 2) =>
           LET B == AccumulatedBase(rq.root, rq.src, Front(rq.parts))
               f == Last(rq.parts)
           IN  IF IsSome(f.path)
               THEN rres = IF Exists(rq.fs, B \o f.path[1]) THEN Ok(B \o f.path[1])
                           ELSE Err("ModuleNotFound")
               ELSE rres = IF Exists(rq.fs, FlatCandidate(B, f))
                             THEN Ok(FlatCandidate(B, f))
                           ELSE IF Exists(rq.fs, MarkerCandidate(B, f))
                             THEN Ok(MarkerCandidate(B, f))
                           ELSE Err("ModuleNotFound")

\* C8's case: chain a.b.c in src/a.rs with only b overridden to "dir", c.rs
\* missing: the result is src/a/a/dir/c/mod.rs
C8_Witness ==
    /\ Resolved /\ rq.src = ARs /\ rq.root = LibRs
    /\ rq.parts = <<Component("a", None), Component("b", Some(<<Dir("dir")>>)),
                    Component("c", None)>>
    /\ rres = Ok(<<Dir("src"), Dir("a"), Dir("a"), Dir("dir"), Dir("c"), Rs("mod")>>)

\* C14: for every non-empty declaration chain and every combination of
\* overrides on its components, resolve ends by returning a path or one of
\* the errors ModuleNotFound, NoParent, NoStem to its caller; no input, an
\* enclosing inline component whose override ends in ".rs" included, makes
\* it abort instead.
C14_ResolveReturns ==
    (rpc = "done" /\ Len(rq.parts) > 0) =>
        \/ rres.tag = "Ok"
        \/ rres.tag = "Err" /\ rres.err \in {"ModuleNotFound", "NoParent", "NoStem"}

----------------------------------------------------------------------------
(* One run of ModVisitor over a parsed file, a step at a time.  ctl holds   *)
(* what the recursion has still to do: Some(item) is an item to visit, None *)
(* is the pop that ends the visit of a module.                              *)

\* a: no attribute; b: a doc comment, then an override; c: `#[cfg(test)]`
\* and `#[path = 1]`; d: `#[path]`, `#[x::path = "n.rs"]`, then two overrides
ItemHeads ==
    { [ident |-> "a", attrs |-> <<>>],
      [ident |-> "b", attrs |-> <<DocAttr, PathAttr(<<Rs("p")>>)>>],
      [ident |-> "c", attrs |-> <<Attribute("List", Some("cfg"), "Other", <<>>),
                                  Attribute("NameValue", Some("path"), "Other", <<Rs("n")>>)>>],
      [ident |-> "d", attrs |-> <<Attribute("Path", Some("path"), "Other", <<>>),
                                  Attribute("NameValue", None, "Str", <<Rs("n")>>),
                                  PathAttr(<<Rs("q")>>), PathAttr(<<Rs("r")>>)>>] }

\* the declarations that are given a body: a and c
InlineHeads == { h \in ItemHeads : h.ident \in {"a", "c"} }

\* the item sequences holding exactly n items, nested ones counted
RECURSIVE Forests(_)
ItemsOfSize(n) ==
    IF n = 0 THEN {}
    ELSE (IF n = 1
          THEN {OtherItem} \cup {ModItem(h.ident, h.attrs, None) : h \in ItemHeads}
          ELSE {})
         \cup {ModItem(h.ident, h.attrs, Some(kids)) :
                   h \in InlineHeads, kids \in Forests(n - 1)}
         \cup (IF n >= 2 THEN {FnItem(body) : body \in Forests(n - 1)} ELSE {})
Forests(n) ==
    IF n = 0 THEN {<<>>}
    ELSE UNION { UNION { { <<first>> \o rest : rest \in Forests(n - k) }
                         : first \in ItemsOfSize(k) }
                 : k \in 1..n }

\* the parsed files of at most max items
ParsedFiles(max) == UNION { Forests(n) : n \in 0..max }

InitVisit ==
    /\ ast \in ParsedFiles(MaxNodes)
    /\ ctl = [k \in 1..Len(ast) |-> Some(ast[k])]
    /\ stack = <<>> /\ modules = <<>> /\ entered = <<>> /\ vpc = "running"
    /\ BuildIdle /\ ResolveIdle /\ TargetsIdle

\* visit_item_mod up to the descent: the push, the record, then the items of
\* the body and the pop are what is left to do before the rest
VisitItemMod ==
    /\ vpc = "running" /\ Len(ctl) > 0 /\ IsSome(Head(ctl))
    /\ LET item == Head(ctl)[1]
       IN  /\ item.kind = "mod"
           /\ entered' = Append(entered, stack)
           /\ stack' = PushComponent(stack, item)
           /\ modules' = RecordModule(modules, stack', item)
           /\ ctl' = (IF IsNone(item.content) THEN <<>>
                      ELSE [k \in 1..Len(item.content[1]) |-> Some(item.content[1][k])])
                     \o <<None>> \o Tail(ctl)
    /\ UNCHANGED <<ast, vpc, buildVars, resolveVars, targetVars>>

\* self.stack.pop().expect("should be balanced")
PopComponent ==
    /\ vpc = "running" /\ Len(ctl) > 0 /\ IsNone(Head(ctl))
    /\ IF Len(stack) = 0
       THEN vpc' = "panic" /\ UNCHANGED <<stack, ctl, entered>>
       ELSE /\ stack' = Front(stack) /\ ctl' = Tail(ctl) /\ vpc' = vpc
            /\ entered' = Front(entered)
    /\ UNCHANGED <<ast, modules, buildVars, resolveVars, targetVars>>

\* an item that is no module: syn's traversal goes through the items it
\* holds, and the visitor's stack is not touched
VisitOtherItem ==
    /\ vpc = "running" /\ Len(ctl) > 0 /\ IsSome(Head(ctl))
    /\ LET item == Head(ctl)[1]
       IN  /\ item.kind # "mod"
           /\ ctl' = (IF IsNone(item.content) THEN <<>>
                      ELSE [k \in 1..Len(item.content[1]) |-> Some(item.content[1][k])])
                     \o Tail(ctl)
    /\ UNCHANGED <<ast, stack, modules, entered, vpc, buildVars, resolveVars, targetVars>>

\* visit_file returns
VisitFileDone ==
    /\ vpc = "running" /\ Len(ctl) = 0
    /\ vpc' = "done"
    /\ UNCHANGED <<ast, ctl, stack, modules, entered, buildVars, resolveVars, targetVars>>

NextVisit == VisitItemMod \/ PopComponent \/ VisitOtherItem \/ VisitFileDone

SpecVisit == InitVisit /\ [][NextVisit]_vars

\* the steps make up the function
StepsAgreeWithExtract == vpc = "done" => modules = ExtractModules(ast)

----------------------------------------------------------------------------
(* The extractor's claims, under SpecVisit.  A declaration is named by its  *)
(* position: the indices that lead to it from the file's top level.         *)

Positions(max) == UNION { [1..n -> 1..max] : n \in 1..max }

RECURSIVE ItemAt(_, _)
ItemAt(items, pos) ==
    IF Len(pos) = 1 THEN items[pos[1]]
    ELSE ItemAt(items[pos[1]].content[1], Tail(pos))

\* pos leads to an item: every index is in range and every item on the way
\* has a body
RECURSIVE IsPosition(_, _)
IsPosition(items, pos) ==
    /\ pos[1] \in 1..Len(items)
    /\ Len(pos) > 1 =>
          /\ IsSome(items[pos[1]].content)
          /\ IsPosition(items[pos[1]].content[1], Tail(pos))

\* the body-less module declarations of a file
FileBacked(items) ==
    { pos \in Positions(MaxNodes) : /\ IsPosition(items, pos)
                          /\ ItemAt(items, pos).kind = "mod"
                          /\ IsNone(ItemAt(items, pos).content) }

\* source-text order of two positions neither of which encloses the other
RECURSIVE Before(_, _)
Before(p, q) ==
    /\ Len(p) > 0 /\ Len(q) > 0
    /\ \/ p[1] < q[1]
       \/ p[1] = q[1] /\ Before(Tail(p), Tail(q))

\* the override a declaration carries: the value of its first attribute that
\* is a name-value named `path` with a string literal
OverrideOf(item) ==
    LET hits == { k \in 1..Len(item.attrs) :
                    /\ item.attrs[k].meta = "NameValue"
                    /\ item.attrs[k].ident = Some("path")
                    /\ item.attrs[k].lit = "Str" }
    IN  IF hits = {} THEN None
        ELSE Some(item.attrs[CHOOSE k \in hits : \A j \in hits : k <= j].value)

\* the enclosing inline modules of a declaration, outermost first, and the
\* declaration itself
ChainAt(items, pos) ==
    LET enclosing == { k \in 1..Len(pos) : ItemAt(items, SubSeq(pos, 1, k)).kind = "mod" }
        nth(n)    == CHOOSE k \in enclosing : Cardinality({j \in enclosing : j < k}) = n - 1
    IN  [n \in 1..Cardinality(enclosing) |->
            LET item == ItemAt(items, SubSeq(pos, 1, nth(n)))
            IN  Component(item.ident, OverrideOf(item))]

\* C10: the extractor emits exactly one record per body-less module
\* declaration of the file, in source-text order, and none for inline
\* declarations; a record's chain is the enclosing inline modules from the
\* top level down to the declaration, each with its own override or none.
C10_OneRecordPerDeclaration ==
    vpc = "done" =>
        LET decls == FileBacked(ast)
        IN  /\ Len(modules) = Cardinality(decls)
            /\ \A pos \in decls :
                  LET rank == 1 + Cardinality({ q \in decls : Before(q, pos) })
                  IN  modules[rank] = ChainAt(ast, pos)

\* C10's case: `mod a { /// .. #[path = "p.rs"] mod b; } mod a;` gave the
\* chain (a, b with its override) and then (a)
C10_Witness ==
    /\ vpc = "done"
    /\ ast = << ModItem("a", <<>>,
                  Some(<<ModItem("b", <<DocAttr, PathAttr(<<Rs("p")>>)>>, None)>>)),
                ModItem("a", <<>>, None) >>
    /\ modules = << <<Component("a", None), Component("b", Some(<<Rs("p")>>))>>,
                    <<Component("a", None)>> >>

\* C11: a declaration's override is set only by a name-value attribute named
\* `path` whose value is a string literal.  Every other attribute (a doc
\* comment, another name, a form that is no name-value, a value that is no
\* string) is skipped without error and leaves the override absent, and the
\* declaration is still extracted: in every visit of a declaration the
\* component pushed has the declaration's name, has an override exactly when
\* such an attribute is there, the override is that attribute's string, a
\* body-less declaration is recorded with it, and the visitor runs on.
C11_OnlyStringPathSetsOverride ==
    [][ Len(stack') > Len(stack) =>
          LET item   == Head(ctl)[1]
              pushed == Last(stack')
              hits   == { k \in 1..Len(item.attrs) :
                            /\ item.attrs[k].meta = "NameValue"
                            /\ item.attrs[k].ident = Some("path")
                            /\ item.attrs[k].lit = "Str" }
          IN  /\ pushed.name = item.ident
              /\ IsSome(pushed.path) <=> hits # {}
              /\ IsSome(pushed.path) =>
                     \E k \in hits : pushed.path[1] = item.attrs[k].value
              /\ IsNone(item.content) => modules' = Append(modules, stack')
              /\ vpc' = "running" ]_vars

\* C11's case: `#[cfg(test)] #[path = 1] mod c;` was extracted with no
\* override, and `#[path] #[x::path = "n.rs"] #[path = "q.rs"]
\* #[path = "r.rs"] mod d;` with the override q.rs
C11_Witness ==
    /\ vpc = "done"
    /\ Len(ast) = 2 /\ ast[1].ident = "c" /\ ast[2].ident = "d"
    /\ Len(ast[1].attrs) = 2 /\ Len(ast[2].attrs) = 4
    /\ modules = << <<Component("c", None)>>, <<Component("d", Some(<<Rs("q")>>))>> >>

\* C13: the extractor's stack is balanced.  Each visit of a module
\* declaration pushes exactly one component before it descends and pops
\* exactly one after, whatever its attributes; a visit of any other item
\* leaves the stack alone; the stack on leaving a declaration is the stack
\* on entering it; the pop never finds the stack empty; the stack is empty
\* once the file is visited; and a declaration is recorded with as many
\* components as module declarations enclose it, itself counted.
C13_StackBalanced ==
    /\ [](vpc # "panic")
    /\ [](vpc = "done" =>
             /\ stack = <<>>
             /\ \A pos \in FileBacked(ast) :
                   LET rank == 1 + Cardinality({ q \in FileBacked(ast) : Before(q, pos) })
                   IN  Len(modules[rank]) =
                         Cardinality({ k \in 1..Len(pos) :
                                         ItemAt(ast, SubSeq(pos, 1, k)).kind = "mod" }))
    /\ [][ (vpc = "running" /\ Len(ctl) > 0) =>
             IF IsNone(Head(ctl))
               THEN /\ stack' = Last(entered)
                    /\ Len(stack') = Len(stack) - 1
             ELSE IF Head(ctl)[1].kind = "mod"
               THEN /\ Front(stack') = stack
                    /\ Len(stack') = Len(stack) + 1
                    /\ IsNone(Head(ctl)[1].content) =>
                          Len(Last(modules')) = Len(entered')
             ELSE stack' = stack ]_vars

\* C13's case: `#[cfg(test)] #[path = 1] mod c { fn f() { #[path] ..
\* #[path = "q.rs"] mod d; } }` was visited: d was recorded at depth 2 and
\* the stack is empty again
C13_Witness ==
    /\ vpc = "done" /\ stack = <<>> /\ entered = <<>>
    /\ Len(ast) = 1 /\ ast[1].ident = "c" /\ IsSome(ast[1].content)
    /\ Len(ast[1].content[1]) = 1 /\ ast[1].content[1][1].kind = "other"
    /\ modules = << <<Component("c", None), Component("d", Some(<<Rs("q")>>))>> >>

----------------------------------------------------------------------------
(* One build: get_target_files and the recursion of extract_crate_files.   *)
(* A frame is one activation: the file it scans, where it is ("enter":     *)
(* called, nothing done yet; "loop": in the loop over visitor.modules),    *)
(* the modules of the file, the index k of the module in hand, and the     *)
(* canonical path that module resolved to while its call is running.       *)

Frame(path, pc, mods, k, callee) ==
    [path |-> path, pc |-> pc, modules |-> mods, k |-> k, callee |-> callee]

Event(kind, path, k, r) ==
    [kind |-> kind, path |-> path, k |-> k, tag |-> r.tag, err |-> r.err]

Running      == [tag |-> "Running", files |-> {}, err |-> ""]
ReturnOk(s)  == [tag |-> "Ok", files |-> s, err |-> ""]
ReturnErr(e) == [tag |-> "Err", files |-> {}, err |-> e]
Aborted      == [tag |-> "Panic", files |-> {}, err |-> "assertion failed"]

Top == frames[Len(frames)]
ReplaceTop(f) == [frames EXCEPT ![Len(frames)] = f]

\* variant: the entered file is not inserted
InsertNothing(set, path) == set
\* acc.insert(path.to_path_buf()) on entry
InsertEntered(set, path) == set \cup {path}

\* extract_crate_files from its entry to the loop: the insert, the read, the
\* parse, the visitor
EnterFile ==
    /\ result.tag = "Running" /\ Len(frames) > 0 /\ Top.pc = "enter"
    /\ acc' = InsertEntered(acc, Top.path)
    /\ LET r == ReadAndParse(files, Top.path)
       IN  /\ events' = Append(events, Event("visit", Top.path, 0, r))
           /\ IF r.tag = "Ok"
              THEN /\ frames' = ReplaceTop(Frame(Top.path, "loop",
                                                 ExtractModules(r.items), 1, <<>>))
                   /\ result' = result
              ELSE /\ frames' = <<>>
                   /\ result' = ReturnErr(r.err)
    /\ UNCHANGED <<files, root, resolveVars, visitVars, targetVars>>

\* variant: a declaration that fails to resolve is passed over
ResolveModuleSkipsFailure ==
    /\ result.tag = "Running" /\ Len(frames) > 0 /\ Len(frames) < MaxDepth
    /\ Top.pc = "loop" /\ Top.k <= Len(Top.modules)
    /\ LET r == Resolve(files, Top.modules[Top.k], root, Top.path)
       IN  /\ events' = Append(events, Event("resolve", Top.path, Top.k, r))
           /\ IF r.tag = "Ok"
              THEN LET c == Canonicalize(files, r.path)
                   IN  frames' = Append(ReplaceTop([Top EXCEPT !.callee = c]),
                                        Frame(c, "enter", <<>>, 0, <<>>))
              ELSE frames' = ReplaceTop([Top EXCEPT !.k = Top.k + 1])
           /\ result' = result
    /\ UNCHANGED <<files, root, acc, resolveVars, visitVars, targetVars>>

\* the loop body up to the recursive call: resolve, canonicalize, call
ResolveModule ==
    /\ result.tag = "Running" /\ Len(frames) > 0 /\ Len(frames) < MaxDepth
    /\ Top.pc = "loop" /\ Top.k <= Len(Top.modules)
    /\ LET r == Resolve(files, Top.modules[Top.k], root, Top.path)
       IN  /\ events' = Append(events, Event("resolve", Top.path, Top.k, r))
           /\ IF r.tag = "Ok"
              THEN LET c == Canonicalize(files, r.path)
                   IN  /\ frames' = Append(ReplaceTop([Top EXCEPT !.callee = c]),
                                           Frame(c, "enter", <<>>, 0, <<>>))
                       /\ result' = result
              ELSE /\ frames' = <<>>
                   /\ result' = IF r.tag = "Panic" THEN Aborted ELSE ReturnErr(r.err)
    /\ UNCHANGED <<files, root, acc, resolveVars, visitVars, targetVars>>

\* Ok(()) of a recursive call, and in the caller acc.insert(canonical_module_path)
\* and the next turn of its loop
ReturnToCaller ==
    /\ result.tag = "Running" /\ Len(frames) > 1
    /\ Top.pc = "loop" /\ Top.k > Len(Top.modules)
    /\ LET caller == frames[Len(frames) - 1]
       IN  /\ acc' = acc \cup {caller.callee}
           /\ frames' = Append(SubSeq(frames, 1, Len(frames) - 2),
                               [caller EXCEPT !.k = caller.k + 1, !.callee = <<>>])
    /\ UNCHANGED <<files, root, result, events, resolveVars, visitVars, targetVars>>

\* Ok(()) of the outermost call, and get_target_files returns Ok(acc)
ReturnFiles ==
    /\ result.tag = "Running" /\ Len(frames) = 1
    /\ Top.pc = "loop" /\ Top.k > Len(Top.modules)
    /\ frames' = <<>>
    /\ result' = ReturnOk(acc)
    /\ UNCHANGED <<files, root, acc, events, resolveVars, visitVars, targetVars>>

Next == EnterFile \/ ResolveModule \/ ReturnToCaller \/ ReturnFiles

----------------------------------------------------------------------------
(* The file trees a build is run on: src/lib.rs is the target's entry, and *)
(* each other file is absent or holds one of a few sources.                *)

ABRs == <<Dir("src"), Dir("a"), Rs("b")>>
BRs  == <<Dir("src"), Rs("b")>>
AXRs == <<Dir("src"), Dir("a"), Rs("x")>>

Decl(name)             == ModItem(name, <<>>, None)
DeclAt(name, ov)       == ModItem(name, <<PathAttr(ov)>>, None)
Inline(name, ov, kids) ==
    ModItem(name, IF IsSome(ov) THEN <<PathAttr(ov[1])>> ELSE <<>>, Some(kids))

Source(items) == [kind |-> "src", items |-> items]
Unparsable    == [kind |-> "bad", items |-> <<>>]

LibSources ==
    { Source(<<>>),
      Source(<<OtherItem, Inline("x", None, <<>>)>>),
      Source(<<Decl("a")>>),
      Source(<<Decl("a"), Decl("b")>>),
      Source(<<Decl("b"), Decl("a")>>),
      Source(<<Decl("a"), DeclAt("c", <<Rs("a")>>)>>),
      Source(<<Inline("a", None, <<Decl("b")>>)>>),
      Source(<<Decl("b"), Inline("a", None, <<DeclAt("c", <<Up, Rs("b")>>)>>)>>),
      Source(<<Inline("c", Some(<<Dir("a")>>), <<Decl("b")>>), Decl("b")>>),
      Source(<<DeclAt("c", <<Rs("lib")>>)>>),
      Source(<<DeclAt("c", <<Dir("a")>>)>>),
      Source(<<Decl("b"), Inline("c", Some(<<Rs("o")>>), <<Decl("b")>>)>>),
      Unparsable }

ASources    == { Source(<<>>), Source(<<Decl("b")>>),
                 Source(<<DeclAt("c", <<Rs("lib")>>)>>), Unparsable }
AModSources == { Source(<<>>), Source(<<Decl("b")>>) }
ABSources   == { Source(<<>>), Source(<<DeclAt("c", <<Up, Rs("b")>>)>>) }
BSources    == { Source(<<>>), Source(<<Decl("a")>>), Unparsable }
AXSources   == { Source(<<>>) }

\* a file that is there, with its content, or not there
Maybe(S) == {None} \cup {Some(c) : c \in S}

FileTree(lib, a, amod, ab, b, ax) ==
    LET given == [p \in {LibRs, ARs, AModRs, ABRs, BRs, AXRs} |->
                    CASE p = LibRs  -> Some(lib)
                      [] p = ARs    -> a
                      [] p = AModRs -> amod
                      [] p = ABRs   -> ab
                      [] p = BRs    -> b
                      [] p = AXRs   -> ax]
    IN  [p \in {q \in DOMAIN given : IsSome(given[q])} |-> given[p][1]]

FileTrees ==
    { FileTree(lib, a, amod, ab, b, ax) :
        lib \in LibSources, a \in Maybe(ASources), amod \in Maybe(AModSources),
        ab \in Maybe(ABSources), b \in Maybe(BSources), ax \in Maybe(AXSources) }

\* get_target_files: let mut acc = HashSet::new(); extract_crate_files(
\* &target.path, &target.path, &mut acc) has just been called
Init ==
    /\ files \in FileTrees
    /\ root = LibRs
    /\ acc = {}
    /\ frames = <<Frame(root, "enter", <<>>, 0, <<>>)>>
    /\ result = Running
    /\ events = <<>>
    /\ ResolveIdle /\ VisitIdle /\ TargetsIdle

Spec == Init /\ [][Next]_vars

----------------------------------------------------------------------------
(* The file-set builder's claims, under Spec *)

Range(f) == { f[i] : i \in DOMAIN f }

\* the files the file-backed declarations of file f resolve to
DeclaredFiles(fs, root_path, f) ==
    LET r == ReadAndParse(fs, f)
    IN  IF r.tag # "Ok" THEN {}
        ELSE { Canonicalize(fs, t.path) :
                 t \in { x \in { Resolve(fs, m, root_path, f) :
                                   m \in Range(ExtractModules(r.items)) }
                           : x.tag = "Ok" } }

\* the entry file and every file reachable from it through declarations
RECURSIVE ReachableFrom(_, _, _)
ReachableFrom(fs, root_path, S) ==
    LET T == S \cup UNION { DeclaredFiles(fs, root_path, f) : f \in S }
    IN  IF T = S THEN S ELSE ReachableFrom(fs, root_path, T)

\* C1: whenever get_target_files returns successfully, the returned set
\* contains the target's own entry path, also when the entry file declares
\* no module at all.
C1_EntryIncluded == result.tag = "Ok" => root \in result.files

\* C1's case: an entry file without any module declaration, built with success
C1_Witness ==
    /\ result.tag = "Ok"
    /\ files[root].items = <<>>
    /\ result.files = {root}

\* C2: when the build succeeds the returned set is exactly the entry file
\* plus every file transitively reachable through file-backed declarations;
\* each member is the canonical path of a file of the tree, so a file reached
\* by several declarations is there once, and a file no declaration reaches
\* is not there.
C2_ExactlyReachable ==
    result.tag = "Ok" =>
        /\ result.files = ReachableFrom(files, root, {root})
        /\ result.files \subseteq DOMAIN files

\* C2's case: src/b.rs is declared as `mod b;` and again, inside `mod a {}`,
\* by the path "../b.rs"; src/a/x.rs exists and is declared nowhere
C2_Witness ==
    /\ result.tag = "Ok"
    /\ files[root].items =
           <<Decl("b"), Inline("a", None, <<DeclAt("c", <<Up, Rs("b")>>)>>)>>
    /\ AXRs \in DOMAIN files
    /\ result.files = {LibRs, BRs}

\* the files entered so far, in order
VisitedPaths == SelectSeq(events, LAMBDA e : e.kind = "visit")

\* C3: a declaration that resolves to a path already in the accumulator is
\* skipped: no activation is started on a file that is in the accumulator,
\* and no file is visited twice.
C3_NoRevisit ==
    /\ \A i \in 1..Len(frames) : frames[i].pc = "enter" => frames[i].path \notin acc
    /\ \A i, j \in 1..Len(VisitedPaths) :
           i # j => VisitedPaths[i].path # VisitedPaths[j].path

\* the outcome of a build worked out from the tree alone: the first failure
\* met when the declarations are followed depth first in declaration order,
\* "" if there is none ("unbounded" past the depth the model follows)
RECURSIVE FirstFailure(_, _, _, _)
RECURSIVE FirstFailureAmong(_, _, _, _, _, _)
FirstFailure(fs, root_path, f, fuel) ==
    LET r == ReadAndParse(fs, f)
    IN  IF r.tag # "Ok" THEN r.err
        ELSE FirstFailureAmong(fs, root_path, f, ExtractModules(r.items), 1, fuel)
FirstFailureAmong(fs, root_path, f, mods, k, fuel) ==
    IF k > Len(mods) THEN ""
    ELSE LET t == Resolve(fs, mods[k], root_path, f)
         IN  IF t.tag # "Ok" THEN t.err
             ELSE IF fuel = 0 THEN "unbounded"
             ELSE LET below == FirstFailure(fs, root_path,
                                            Canonicalize(fs, t.path), fuel - 1)
                  IN  IF below # "" THEN below
                      ELSE FirstFailureAmong(fs, root_path, f, mods, k + 1, fuel)

\* C9: if reading, parsing or resolving fails (returns an Error value)
\* anywhere in the traversal, the build returns that error and no file set;
\* the error is the first failure in depth-first declaration order; nothing
\* is resolved or visited after it.
C9_FirstFailureIsFatal ==
    /\ \A i \in 1..Len(events) :
           events[i].tag = "Err" =>
               /\ i = Len(events)
               /\ frames = <<>>
               /\ result = ReturnErr(events[i].err)
    /\ result.tag = "Err" =>
           /\ result.files = {}
           /\ Len(events) > 0 /\ events[Len(events)].tag = "Err"
           /\ result.err = FirstFailure(files, root, root, MaxDepth)
    /\ result.tag = "Ok" => FirstFailure(files, root, root, MaxDepth) = ""

\* C9's case: lib.rs declares a then b; a.rs declares b, which is missing
\* under src/a/; src/b.rs exists and is never reached
C9_Witness ==
    /\ result = ReturnErr("ModuleNotFound")
    /\ files[root].items = <<Decl("a"), Decl("b")>>
    /\ BRs \in DOMAIN files
    /\ acc = {LibRs, ARs}
    /\ events[Len(events)] = Event("resolve", ARs, 1, Err("ModuleNotFound"))

----------------------------------------------------------------------------
(* Target enumeration: get_targets and get_targets_recursive.  The world   *)
(* is the packages on disk, each in the directory of its name: whether its *)
(* Cargo.toml is there and what cargo makes of it, its targets, its         *)
(* dependencies, and which packages share the workspace of x.  `cargo      *)
(* metadata --no-deps` answers for a manifest with the members of its      *)
(* workspace.                                                              *)

CargoToml == [stem |-> "Cargo", ext |-> "toml"]
ManifestOf(dir) == <<Dir(dir), CargoToml>>

Dependency(name, path) == [name |-> name, path |-> path]
Local(dir)     == Dependency(dir, Some(<<Dir(dir)>>))
Registry(name) == Dependency(name, None)

\* Target::from_target of the one target a package has
LibTarget(dir) == [name |-> dir, path |-> <<Dir(dir), Dir("src"), Rs("lib")>>]

Package(dir, deps) ==
    [manifest_path |-> ManifestOf(dir), targets |-> {LibTarget(dir)},
     dependencies |-> deps]

PackageDirs == <<"x", "y", "z">>

\* the dependency tables of x, of y and of z.  w is a directory with no
\* Cargo.toml; serde comes from the registry; x can name y twice, the
\* second time at the directory of z.
XDependencies ==
    { <<>>, <<Local("y")>>, <<Registry("serde"), Local("y"), Local("z")>>,
      <<Local("y"), Dependency("y", Some(<<Dir("z")>>))>>,
      <<Local("w"), Local("z")>>, <<Registry("y"), Local("z"), Local("z")>> }
YDependencies ==
    { <<>>, <<Local("x")>>, <<Local("z")>>, <<Local("z"), Local("x")>> }
ZDependencies ==
    { <<>>, <<Local("x")>>, <<Local("y")>>, <<Local("x"), Local("y")>> }

\* kind: "package", "virtual" (a workspace root that is no package), "bad" (cargo
\* metadata fails on it), "missing" (no Cargo.toml in the directory)
Worlds ==
    { [entry |-> e, workspace |-> ws,
       kind |-> [x |-> kx, y |-> ky, z |-> kz],
       dependencies |-> [x |-> dx, y |-> dy, z |-> dz]] :
         e \in {None, Some(ManifestOf("x")), Some(<<Dir("x"), Rs("main")>>)},
         ws \in {{"x"}, {"x", "y"}},
         kx \in {"package", "virtual"}, ky \in {"package", "bad", "missing"},
         kz \in {"package", "missing"},
         dx \in XDependencies, dy \in YDependencies, dz \in ZDependencies }

\* manifest_path.exists()
ManifestExists(w, manifest_path) ==
    /\ Len(manifest_path) = 2 /\ manifest_path[2] = CargoToml
    /\ \E k \in 1..Len(PackageDirs) :
          /\ manifest_path[1] = Dir(PackageDirs[k])
          /\ w.kind[PackageDirs[k]] # "missing"

\* get_cargo_metadata: the packages of the workspace the manifest is in, or
\* an error.  With no manifest given cargo takes the one of the current
\* directory, x.
GetCargoMetadata(w, manifest_path) ==
    LET m   == IF IsSome(manifest_path) THEN manifest_path[1] ELSE ManifestOf("x")
        dir == m[1].stem
        members == IF dir \in w.workspace
                   THEN SelectSeq(PackageDirs, LAMBDA d : d \in w.workspace
                                                        /\ w.kind[d] = "package")
                   ELSE <<dir>>
    IN  IF ~ManifestExists(w, m) \/ w.kind[dir] = "bad"
          THEN [tag |-> "Err", packages |-> <<>>]
        ELSE [tag |-> "Ok",
              packages |-> [k \in 1..Len(members) |->
                              Package(members[k], w.dependencies[members[k]])]]

TRunning      == [tag |-> "Running", err |-> ""]
TReturnOk     == [tag |-> "Ok", err |-> ""]
TReturnErr(e) == [tag |-> "Err", err |-> e]

TFrame(manifest_path, pc, packages, pi, di) ==
    [manifest_path |-> manifest_path, pc |-> pc, packages |-> packages,
     pi |-> pi, di |-> di]

TTop == tframes[Len(tframes)]
TReplaceTop(f) == [tframes EXCEPT ![Len(tframes)] = f]

\* variant: only a dependency with no path is passed over
SkipsRegistryOnly(dependency, seen) == IsNone(dependency.path)
\* dependency.path.is_none() || visited.contains(&dependency.name)
SkipsDependency(dependency, seen) ==
    IsNone(dependency.path) \/ dependency.name \in seen

\* manifest_path.exists() && !metadata.packages.iter().any(|p| p.manifest_path.eq(..))
IsForeignManifest(w, packages, manifest_path) ==
    /\ ManifestExists(w, manifest_path)
    /\ ~\E k \in 1..Len(packages) : packages[k].manifest_path = manifest_path

InitTargets ==
    /\ world \in Worlds
    /\ tframes = <<>> /\ targets = {} /\ visited = {} /\ calls = <<>>
    /\ tret = TRunning
    /\ tres = [tag |-> "Begin", targets |-> {}, err |-> ""]
    /\ BuildIdle /\ ResolveIdle /\ VisitIdle

\* get_targets and the call _get_targets makes
GetTargets ==
    /\ tres.tag = "Begin"
    /\ IF IsSome(world.entry) /\ Last(world.entry[1]) # CargoToml
       THEN /\ tres' = [tag |-> "Err", targets |-> {}, err |-> "ManifestNotCargoToml"]
            /\ UNCHANGED tframes
       ELSE /\ tres' = [tag |-> "Running", targets |-> {}, err |-> ""]
            /\ tframes' = <<TFrame(world.entry, "enter", <<>>, 0, 0)>>
    /\ UNCHANGED <<world, targets, visited, tret, calls,
                   buildVars, resolveVars, visitVars>>

\* get_cargo_metadata(manifest_path).map_err(Error::ManifestError)?
GetMetadata ==
    /\ Len(tframes) > 0 /\ TTop.pc = "enter"
    /\ LET metadata == GetCargoMetadata(world, TTop.manifest_path)
       IN  IF metadata.tag = "Err"
           THEN /\ tframes' = Front(tframes)
                /\ tret' = TReturnErr("ManifestError")
           ELSE /\ tframes' = TReplaceTop(TFrame(TTop.manifest_path, "loop",
                                                 metadata.packages, 1, 0))
                /\ tret' = tret
    /\ UNCHANGED <<world, targets, visited, tres, calls,
                   buildVars, resolveVars, visitVars>>

\* add_targets(&package.targets, targets)
AddTargets ==
    /\ Len(tframes) > 0 /\ TTop.pc = "loop"
    /\ TTop.pi <= Len(TTop.packages) /\ TTop.di = 0
    /\ targets' = targets \cup TTop.packages[TTop.pi].targets
    /\ tframes' = TReplaceTop([TTop EXCEPT !.di = 1])
    /\ UNCHANGED <<world, visited, tret, tres, calls,
                   buildVars, resolveVars, visitVars>>

\* the dependency in hand and the manifest its path leads to
TDependency == TTop.packages[TTop.pi].dependencies[TTop.di]
InDependencyLoop ==
    /\ Len(tframes) > 0 /\ TTop.pc = "loop"
    /\ TTop.pi <= Len(TTop.packages)
    /\ TTop.di \in 1..Len(TTop.packages[TTop.pi].dependencies)

\* a dependency passed over: it has no path, its name was seen, its
\* manifest is not there, or it is a package of the metadata in hand
SkipDependency ==
    /\ InDependencyLoop
    /\ IF SkipsDependency(TDependency, visited) THEN TRUE
       ELSE ~IsForeignManifest(world, TTop.packages,
                               Join(TDependency.path[1], <<CargoToml>>))
    /\ tframes' = TReplaceTop([TTop EXCEPT !.di = @ + 1])
    /\ UNCHANGED <<world, targets, visited, tret, tres, calls,
                   buildVars, resolveVars, visitVars>>

\* visited.insert(dependency.name) and the recursive call
RecurseIntoDependency ==
    /\ InDependencyLoop
    /\ Len(tframes) < MaxDepth
    /\ ~SkipsDependency(TDependency, visited)
    /\ LET manifest_path == Join(TDependency.path[1], <<CargoToml>>)
       IN  /\ IsForeignManifest(world, TTop.packages, manifest_path)
           /\ visited' = visited \cup {TDependency.name}
           /\ calls' = Append(calls, TDependency.name)
           /\ tframes' = Append(TReplaceTop([TTop EXCEPT !.pc = "call"]),
                                TFrame(Some(manifest_path), "enter", <<>>, 0, 0))
    /\ UNCHANGED <<world, targets, tret, tres,
                   buildVars, resolveVars, visitVars>>

\* the `?` on the recursive call: on with the next dependency, or out
AfterCall ==
    /\ Len(tframes) > 0 /\ TTop.pc = "call" /\ tret # TRunning
    /\ IF tret.tag = "Ok"
       THEN /\ tframes' = TReplaceTop([TTop EXCEPT !.pc = "loop", !.di = @ + 1])
            /\ tret' = TRunning
       ELSE /\ tframes' = Front(tframes)
            /\ tret' = tret
    /\ UNCHANGED <<world, targets, visited, tres, calls,
                   buildVars, resolveVars, visitVars>>

\* the dependencies of a package are done: the next package
NextPackage ==
    /\ Len(tframes) > 0 /\ TTop.pc = "loop"
    /\ TTop.pi <= Len(TTop.packages)
    /\ TTop.di > Len(TTop.packages[TTop.pi].dependencies)
    /\ tframes' = TReplaceTop([TTop EXCEPT !.pi = @ + 1, !.di = 0])
    /\ UNCHANGED <<world, targets, visited, tret, tres, calls,
                   buildVars, resolveVars, visitVars>>

\* Ok(()) once every package is done
ReturnFromPackages ==
    /\ Len(tframes) > 0 /\ TTop.pc = "loop"
    /\ TTop.pi > Len(TTop.packages)
    /\ tframes' = Front(tframes)
    /\ tret' = TReturnOk
    /\ UNCHANGED <<world, targets, visited, tres, calls,
                   buildVars, resolveVars, visitVars>>

\* _get_targets after the outermost call: its error, NoTargets, or the set
ReturnTargets ==
    /\ tres.tag = "Running" /\ tframes = <<>> /\ tret # TRunning
    /\ tres' = IF tret.tag = "Err"
                 THEN [tag |-> "Err", targets |-> {}, err |-> tret.err]
               ELSE IF targets = {}
                 THEN [tag |-> "Err", targets |-> {}, err |-> "NoTargets"]
               ELSE [tag |-> "Ok", targets |-> targets, err |-> ""]
    /\ UNCHANGED <<world, tframes, targets, visited, tret, calls,
                   buildVars, resolveVars, visitVars>>

NextTargets ==
    \/ GetTargets \/ GetMetadata \/ AddTargets \/ SkipDependency
    \/ RecurseIntoDependency \/ AfterCall \/ NextPackage
    \/ ReturnFromPackages \/ ReturnTargets

\* every step that can be taken is taken in the end: the program runs on
SpecTargets == InitTargets /\ [][NextTargets]_vars /\ WF_vars(NextTargets)

TargetsReturned == tres.tag \in {"Ok", "Err"}

\* the names of the dependencies with a path, anywhere in the world
PathDependencyNames ==
    UNION { { world.dependencies[d][k].name :
                k \in { j \in 1..Len(world.dependencies[d]) :
                          IsSome(world.dependencies[d][j].path) } } :
            d \in {"x", "y", "z"} }

\* C12: target enumeration recurses into each distinct local path
\* dependency, identified by its name, at most once: no name is recursed
\* into twice, so there are no more recursive calls than there are names of
\* path dependencies and no more activations than one more than that; and
\* the enumeration returns in the end, whatever the dependency graph, two
\* packages that depend on each other by path included.
C12_EachDependencyOnce ==
    /\ [](\A i, j \in 1..Len(calls) : calls[i] = calls[j] => i = j)
    /\ [](/\ Len(calls) <= Cardinality(PathDependencyNames)
          /\ Len(tframes) <= 1 + Len(calls))
    /\ <>TargetsReturned

\* C12's case: x depends on y and y on x, by path; y was recursed into,
\* then x from y, and the enumeration returned the targets of both
C12_Witness ==
    /\ tres.tag = "Ok" /\ tres.targets = {LibTarget("x"), LibTarget("y")}
    /\ world.dependencies["x"] = <<Local("y")>>
    /\ world.dependencies["y"] = <<Local("x")>>
    /\ calls = <<"y", "x">>

====
